---- MODULE Spec2Model ----
(***************************************************************************)
(* A model of tarxiv: the survey adapters (tarxiv/data_sources.py), the    *)
(* metadata helpers (tarxiv/utils.py) and the Gmail notice monitor         *)
(* (tarxiv/alerts.py).                                                     *)
(*                                                                         *)
(* Python values are represented as follows.                               *)
(*   dict            a function whose domain is the set of its keys        *)
(*   list            a sequence                                            *)
(*   DataFrame       a sequence of row records                             *)
(*   None / NaN      a tag beside the value (TLC compares like with like)  *)
(***************************************************************************)
EXTENDS Integers, Sequences, FiniteSets, TLC

(* ------------------------------ bounds -------------------------------- *)
\* rows of a merged light curve
MaxRows == 2
\* mjd and mag values range over 1..MaxVal
MaxVal == 2
\* length of a metadata field's list
MaxLen == 2
\* rows of the table a survey answers with
MaxSurveyRows == 2
\* messages that arrive in the mailbox
MaxMsgs == 2
\* monitoring threads started in one process (calls of monitor_notices)
MaxThreads == 2
\* entries the model lets Gmail.q hold (queue.Queue() itself has no bound)
MaxQueue == 2
\* half hours of wall time that pass
MaxTicks == 1
\* mailbox calls that raise
MaxFaults == 1
\* crashes of the process, each followed by a restart
MaxCrashes == 1
\* rows of a light curve an adapter hands to the aggregation
MaxAggRows == 1
\* calls one caller makes on the TNS server (lookups and bulk downloads)
MaxLookups == 3
\* names in the CSV of a bulk download
MaxBulkNames == 2
\* config["tns"]["rate_limit"], in ticks of the caller's clock
rate_limit == 2

VARIABLES
    lc_in,      \* meta_add_peak_mags: the merged light curve (obj_lc_df)
    meta_in,    \* meta_add_peak_mags: the object meta schema (obj_meta)
    peak_ret,   \* meta_add_peak_mags: what the call returned
    clean_in,   \* clean_meta: the record handed in
    clean_ret,  \* clean_meta: what the call returned
    adapter,    \* get_object: the adapter called (its self.module)
    answer,     \* get_object: what the survey's service answers
    get_ret,    \* get_object: what the call returned
    mail,       \* mailbox: the messages that have arrived, by id 1..Len(mail)
    unread,     \* mailbox: the ids carrying the UNREAD label
    now,        \* time.time(), in seconds
    self_t,     \* Gmail.t: the thread started last (0: None); 1..self_t exist
    stop_event, \* Gmail.stop_event
    q,          \* Gmail.q
    pc,         \* per monitoring thread: the call it is in
    batch,      \* per monitoring thread: `messages` still to be processed
    last_refresh, \* per monitoring thread: its local last_refresh
    caller,     \* the thread that calls monitor_notices / stop_monitoring
    c_pc,       \* the consumer: idle, holding a poll result, in mark_read
    c_msg,      \* the consumer: the poll result it holds
    faults,     \* mailbox calls that have raised so far
    crashes,    \* process crashes so far
    handed,     \* history: the entries put on q since the process started
    lost,       \* history: entries of a past run, cut off before mark_read
    ingest,     \* TarxivTNS.monitor_notices: where its loop is
    agg_in,     \* aggregation: what get_object of each adapter returned
    agg,        \* aggregation: the record being built, and where the run is
    tns         \* requests of one caller to the TNS server: clock, last request

purevars == <<lc_in, meta_in, peak_ret, clean_in, clean_ret, adapter, answer,
              get_ret>>
monvars == <<mail, unread, now, self_t, stop_event, q, pc, batch,
             last_refresh, caller, c_pc, c_msg, faults, crashes, handed,
             lost, ingest>>
aggvars == <<agg_in, agg>>
vars == <<purevars, monvars, aggvars, tns>>

(* ------------------------------ helpers ------------------------------- *)
\* every sequence over S of length at most n
BoundedSeq(S, n) == UNION {[1..k -> S] : k \in 0..n}

Range(s) == {s[i] : i \in 1..Len(s)}

MinOf(S) == CHOOSE x \in S : \A y \in S : x <= y

\* the elements of S as a sequence ascending by rank (rank is injective on S)
RECURSIVE SortBy(_, _)
SortBy(S, rank) ==
    IF S = {} THEN <<>>
    ELSE LET x == CHOOSE a \in S : \A b \in S : rank[a] <= rank[b]
         IN <<x>> \o SortBy(S \ {x}, rank)

\* a dict with no key
EmptyDict == [k \in {} |-> <<>>]

\* d[key] = value, the other keys kept
DictSet(d, key, value) ==
    [k \in (DOMAIN d) \cup {key} |-> IF k = key THEN value ELSE d[k]]

\* the call has not returned yet
Pending == [type |-> "pending", dict |-> EmptyDict]

(* ------------------------- Survey (base class) ------------------------ *)
survey_source_map ==
    [s \in {"TNS", "ATLAS", "ZTF", "ASAS-SN", "SHERLOCK", "MANGROVE"} |->
        CASE s = "TNS" -> 0
          [] s = "ATLAS" -> 2
          [] s = "ZTF" -> 3
          [] s = "ASAS-SN" -> 5
          [] s = "SHERLOCK" -> 7
          [] s = "MANGROVE" -> 8]

\* the surveys whose adapters return light-curve rows
LcSurveys == {"ASAS-SN", "ATLAS", "ZTF"}

\* the filter of a row whose filter is missing (NaN)
NaN == "NaN"

\* the filter codes of the model
Filters == {"g", "R"}

\* Python's order of the strings that pandas' min() and sort compare here:
\* "ASAS-SN" < "ATLAS" < "ZTF" and "R" < "g" (upper case sorts first)
PyStrOrder ==
    [s \in LcSurveys \cup Filters \cup {"c", "i", "o"} |->
        CASE s = "ASAS-SN" -> 1
          [] s = "ATLAS" -> 2
          [] s = "ZTF" -> 3
          [] s = "R" -> 4
          [] s = "c" -> 5
          [] s = "g" -> 6
          [] s = "i" -> 7
          [] s = "o" -> 8]

\* a light-curve row: the columns meta_add_peak_mags reads
LcRows ==
    [mjd : 1..MaxVal, mag : 1..MaxVal, filter : Filters \cup {NaN},
     survey : LcSurveys]

\* obj_lc_df.groupby('filter').min(): one row per filter key, keys sorted,
\* rows with a missing key dropped, and each column its own minimum over the
\* group
groupby_filter_min(lc) ==
    LET keys == {lc[i].filter : i \in 1..Len(lc)} \ {NaN}
        group(f) == {i \in 1..Len(lc) : lc[i].filter = f}
        sorted == SortBy(keys, PyStrOrder)
    IN [n \in 1..Len(sorted) |->
          LET f == sorted[n]
              minrank == MinOf({PyStrOrder[lc[i].survey] : i \in group(f)})
          IN [filter |-> f,
              mag |-> MinOf({lc[i].mag : i \in group(f)}),
              mjd |-> MinOf({lc[i].mjd : i \in group(f)}),
              survey |-> CHOOSE s \in LcSurveys : PyStrOrder[s] = minrank]]

\* a plausible slip: the brightest value of the whole light curve for every
\* filter
meta_add_peak_mags_global_min(obj_meta, obj_lc_df) ==
    IF Len(obj_lc_df) = 0
    THEN [type |-> "DataFrame", dict |-> EmptyDict]
    ELSE LET filter_df == groupby_filter_min(obj_lc_df)
             peak_mags ==
                 [n \in 1..Len(filter_df) |->
                     [filter |-> filter_df[n].filter,
                      value |-> MinOf({obj_lc_df[i].mag :
                                           i \in 1..Len(obj_lc_df)}),
                      mjd_recorded |-> filter_df[n].mjd,
                      source |-> survey_source_map[filter_df[n].survey]]]
         IN IF peak_mags # <<>>
            THEN [type |-> "dict",
                  dict |-> DictSet(obj_meta, "peak_mag", peak_mags)]
            ELSE [type |-> "dict", dict |-> obj_meta]

meta_add_peak_mags(obj_meta, obj_lc_df) ==
    IF Len(obj_lc_df) = 0
    THEN [type |-> "DataFrame", dict |-> EmptyDict]
    ELSE LET filter_df == groupby_filter_min(obj_lc_df)
             peak_mags ==
                 [n \in 1..Len(filter_df) |->
                     [filter |-> filter_df[n].filter,
                      value |-> filter_df[n].mag,
                      mjd_recorded |-> filter_df[n].mjd,
                      source |-> survey_source_map[filter_df[n].survey]]]
         IN IF peak_mags # <<>>
            THEN [type |-> "dict",
                  dict |-> DictSet(obj_meta, "peak_mag", peak_mags)]
            ELSE [type |-> "dict", dict |-> obj_meta]

\* config[module]['associated_sources'] of config.yml
associated_sources ==
    [m \in {"tns", "atlas", "ztf", "asas-sn"} |->
        CASE m = "tns" -> <<"TNS">>
          [] m = "atlas" -> <<"ATLAS", "SHERLOCK">>
          [] m = "ztf" -> <<"ZTF", "MANGROVE">>
          [] m = "asas-sn" -> <<"ASAS-SN">>]

\* sources.json: the header record of each source
schema_sources ==
    [s \in DOMAIN survey_source_map |->
        [name |-> s, source |-> survey_source_map[s]]]

\* The order in which the adapters insert the keys of their meta dicts, which
\* is the order survey_meta.items() yields them in.
FieldRank ==
    [f \in {"identifiers", "ra_deg", "dec_deg", "ra_hms", "dec_dms",
            "object_type", "discovery_date", "reporting_group",
            "discovery_data_source", "redshift", "host_name"} |->
        CASE f = "identifiers" -> 1 [] f = "ra_deg" -> 2 [] f = "dec_deg" -> 3
          [] f = "ra_hms" -> 4 [] f = "dec_dms" -> 5 [] f = "object_type" -> 6
          [] f = "discovery_date" -> 7 [] f = "reporting_group" -> 8
          [] f = "discovery_data_source" -> 9 [] f = "redshift" -> 10
          [] f = "host_name" -> 11]

\* survey_meta.items(), as the sequence of its keys
Items(survey_meta) ==
    SortBy(DOMAIN survey_meta, [f \in DOMAIN survey_meta |-> FieldRank[f]])

\* lines 79-84: the fields still to go are appended to obj_meta, item by item
\* for a list and as one item otherwise; obj_meta[field] of a field the
\* record lacks is a KeyError, which leaves the appends made so far in place
\* a slip: a scalar survey field is stored as the field's list (obj_meta[field]
\* = [meta]) instead of appended to it
RECURSIVE AppendFieldsReplace(_, _, _)
AppendFieldsReplace(obj_meta, survey_meta, fields) ==
    IF fields = <<>> THEN [raised |-> "none", dict |-> obj_meta]
    ELSE LET field == Head(fields)
             meta == survey_meta[field]
         IN IF meta.items = <<>>
            THEN AppendFieldsReplace(obj_meta, survey_meta, Tail(fields))
            ELSE IF field \notin DOMAIN obj_meta
            THEN [raised |-> "KeyError", dict |-> obj_meta]
            ELSE AppendFieldsReplace(
                     [obj_meta EXCEPT
                         ![field] = IF meta.shape = "scalar" THEN meta.items
                                    ELSE @ \o meta.items],
                     survey_meta, Tail(fields))

RECURSIVE AppendFields(_, _, _)
AppendFields(obj_meta, survey_meta, fields) ==
    IF fields = <<>> THEN [raised |-> "none", dict |-> obj_meta]
    ELSE LET field == Head(fields)
             meta == survey_meta[field]
         IN IF meta.items = <<>>
            THEN AppendFields(obj_meta, survey_meta, Tail(fields))
            ELSE IF field \notin DOMAIN obj_meta
            THEN [raised |-> "KeyError", dict |-> obj_meta]
            ELSE AppendFields([obj_meta EXCEPT ![field] = @ \o meta.items],
                              survey_meta, Tail(fields))

\* lines 75-77: the header records of the module's sources are appended
AppendSources(module, obj_meta) ==
    [obj_meta EXCEPT
        !["sources"] =
            @ \o [n \in 1..Len(associated_sources[module]) |->
                     schema_sources[associated_sources[module][n]]]]

\* a slip: the sources are registered before survey_meta is tested for None
update_object_meta_sources_first(module, obj_meta, survey_none, survey_meta) ==
    IF "sources" \notin DOMAIN obj_meta
    THEN [raised |-> "KeyError", dict |-> obj_meta]
    ELSE IF survey_none
    THEN [raised |-> "none", dict |-> AppendSources(module, obj_meta)]
    ELSE AppendFields(AppendSources(module, obj_meta), survey_meta,
                      Items(survey_meta))

\* Survey.update_object_meta of the adapter `module`; survey_none: survey_meta
\* is None
update_object_meta(module, obj_meta, survey_none, survey_meta) ==
    IF survey_none THEN [raised |-> "none", dict |-> obj_meta]
    ELSE IF "sources" \notin DOMAIN obj_meta
    THEN [raised |-> "KeyError", dict |-> obj_meta]
    ELSE AppendFields(AppendSources(module, obj_meta), survey_meta,
                      Items(survey_meta))

\* a slip: the items of a list are taken out of it as they are appended
\* (obj_meta[field].append(meta.pop(0))), which leaves the adapter's list
\* empty
update_object_meta_pops(module, obj_meta, survey_none, survey_meta) ==
    [f \in DOMAIN survey_meta |->
        IF survey_meta[f].shape = "list"
        THEN [shape |-> "list", items |-> <<>>]
        ELSE survey_meta[f]]

\* What update_object_meta leaves in survey_meta, the dict of the adapter it
\* is handed: lines 79-84 read it (items(), the iteration of a list) and
\* append its items to the lists of obj_meta; no statement assigns to it, to
\* one of its lists or to an item.
update_object_meta_leaves(module, obj_meta, survey_none, survey_meta) ==
    survey_meta


(* --------------------------- Python semantics -------------------------- *)
\* A value that is either one item or a list of items (type(meta) is list):
\* a single dict
Scalar(x) == [shape |-> "scalar", items |-> <<x>>]
\* a list
List(s) == [shape |-> "list", items |-> s]

\* requests / client failures of the network kind
NetworkErrors == {"ConnectionError", "Timeout"}

\* pd.DataFrame(): no column, no row
EmptyDataFrame == [columns |-> {}, rows |-> <<>>]

\* df.rename(map, axis=1)
DfRename(df, map) ==
    LET new(c) == IF c \in DOMAIN map THEN map[c] ELSE c
        cols == {new(c) : c \in df.columns}
    IN [columns |-> cols,
        rows |-> [i \in 1..Len(df.rows) |->
                    [c2 \in cols |->
                        df.rows[i][CHOOSE c \in df.columns : new(c) = c2]]]]

\* df[cols] (the caller checks cols \subseteq df.columns: KeyError otherwise)
DfSelect(df, cols) ==
    [columns |-> cols,
     rows |-> [i \in 1..Len(df.rows) |-> [c \in cols |-> df.rows[i][c]]]]

\* df[col] = values, one value per row
DfAssign(df, col, values) ==
    [columns |-> df.columns \cup {col},
     rows |-> [i \in 1..Len(df.rows) |->
                 [c \in df.columns \cup {col} |->
                     IF c = col THEN values[i] ELSE df.rows[i][c]]]]

\* df[col] = value, the same in every row
DfAssignAll(df, col, value) ==
    DfAssign(df, col, [i \in 1..Len(df.rows) |-> value])

\* df.drop(col, axis=1)
DfDrop(df, col) == DfSelect(df, df.columns \ {col})

\* df[mask], mask one boolean per row
DfFilter(df, mask) ==
    LET kept == SelectSeq([i \in 1..Len(df.rows) |-> i], LAMBDA i : mask[i])
    IN [columns |-> df.columns,
        rows |-> [k \in 1..Len(kept) |-> df.rows[kept[k]]]]

\* the columns every adapter is to return (Survey.get_object's contract)
NormalColumns == {"mjd", "mag", "mag_err", "limit", "filter", "unit", "survey"}

\* Times are held in half days, so that jd = mjd + 2400000.5 stays integral:
\* Time(jd, format='jd').mjd
MJD_OFFSET_HALFDAYS == 4800001
JdToMjd(jd) == jd - MJD_OFFSET_HALFDAYS

\* the locals of get_object when its try body ends: exc is the exception in
\* flight ("none": the body ran to its end); status is status["status"]
\* ("absent": the key is not set)
Locals(exc, status, meta_none, meta, lc_df) ==
    [exc |-> exc, status |-> status, meta_none |-> meta_none,
     meta |-> meta, lc_df |-> lc_df]

Raise(loc, exc) == [loc EXCEPT !.exc = exc]

\* meta, lc_df = None, pd.DataFrame(); status = {"obj_name": obj_name}
Locals0 == Locals("none", "absent", TRUE, EmptyDict, EmptyDataFrame)

\* status["status"].append("|no light curve"): status["status"] is a str
\* (AttributeError) or is not set (KeyError)
StatusAppend(loc) ==
    IF loc.status = "absent" THEN "KeyError" ELSE "AttributeError"

\* The except clauses of get_object: the exception still in flight when they
\* are done.  ASAS_SN and ZTF: SurveyMetaMissing, SurveyLightCurveMissing,
\* Exception.  ATLAS: (SurveyMetaMissing, ATLASAPIClientError),
\* SurveyLightCurveMissing, Exception.  TNS: SurveyMetaMissing, Exception.
Except(module, loc) ==
    CASE loc.exc = "none" -> "none"
      [] loc.exc = "SurveyMetaMissing" -> "none"
      [] loc.exc = "SurveyLightCurveMissing" /\ module # "tns" ->
            StatusAppend(loc)
      [] OTHER -> "none"

\* a slip: the return statement after the try statement instead of inside
\* finally, so an exception in flight leaves get_object
FinallyWithoutReturn(loc, pending) ==
    [raised |-> pending, meta_none |-> loc.meta_none, meta |-> loc.meta,
     lc_df |-> loc.lc_df]

\* finally: self.logger.info(status); return meta, lc_df.  A return inside
\* finally discards the exception in flight.
Finally(loc, pending) ==
    [raised |-> "none", meta_none |-> loc.meta_none, meta |-> loc.meta,
     lc_df |-> loc.lc_df]

(* -------------------------------- ASAS_SN ------------------------------ *)
ASAS_SN_raw_columns ==
    {"jd", "mag", "mag_err", "limit", "phot_filter", "camera", "quality"}

\* lines 173-184, on the table lcs[nearest_id].data
ASAS_SN_lightcurve(loc, data) ==
    LET d1 == DfAssign(data, "mjd",
                       [i \in 1..Len(data.rows) |-> JdToMjd(data.rows[i]["jd"])])
        d2 == DfRename(d1, [c \in {"phot_filter", "camera"} |->
                               IF c = "camera" THEN "unit" ELSE "filter"])
    IN IF "jd" \notin data.columns
       THEN Raise([loc EXCEPT !.lc_df = data], "KeyError")
       ELSE IF "quality" \notin d2.columns
       THEN Raise([loc EXCEPT !.lc_df = d2], "KeyError")
       ELSE LET d3 == DfFilter(d2, [i \in 1..Len(d2.rows) |->
                                       d2.rows[i]["quality"] # "B"])
            IN IF "mag_err" \notin d3.columns
               THEN Raise([loc EXCEPT !.lc_df = d3], "KeyError")
               ELSE LET d4 == DfFilter(d3, [i \in 1..Len(d3.rows) |->
                                               d3.rows[i]["mag_err"] < 99])
                        d5 == DfAssignAll(d4, "survey", "ASAS-SN")
                    IN IF ~(NormalColumns \subseteq d5.columns)
                       THEN Raise([loc EXCEPT !.lc_df = d5], "KeyError")
                       ELSE [loc EXCEPT
                               !.lc_df = DfSelect(d5, NormalColumns)]

\* a slip: meta is built after the light curve is normalized, so a failure in
\* the normalization leaves meta None beside the table
ASAS_SN_try_meta_last(resp) ==
    IF resp.query \in NetworkErrors THEN Raise(Locals0, resp.query)
    ELSE IF resp.query = "null" THEN Raise(Locals0, "SurveyMetaMissing")
    ELSE LET meta == [k \in {"identifiers"} |->
                         List(<<[name |-> resp.id, source |-> 6]>>)]
             loc == Locals("none", "match", TRUE, EmptyDict, EmptyDataFrame)
         IN IF resp.data.rows = <<>>
            THEN Raise(loc, "SurveyLightCurveMissing")
            ELSE LET l == ASAS_SN_lightcurve(loc, resp.data)
                 IN IF l.exc # "none" THEN l
                    ELSE [l EXCEPT !.meta_none = FALSE, !.meta = meta]

\* the try body of ASAS_SN.get_object.  resp.query: what client.adql_query
\* does ("null": it returns None); resp.data: lcs.data
ASAS_SN_try(resp) ==
    IF resp.query \in NetworkErrors THEN Raise(Locals0, resp.query)
    ELSE IF resp.query = "null" THEN Raise(Locals0, "SurveyMetaMissing")
    ELSE LET meta == [k \in {"identifiers"} |->
                         List(<<[name |-> resp.id, source |-> 6]>>)]
             loc == Locals("none", "match", FALSE, meta, EmptyDataFrame)
         IN IF resp.data.rows = <<>>
            THEN Raise(loc, "SurveyLightCurveMissing")
            ELSE ASAS_SN_lightcurve(loc, resp.data)

(* ---------------------------------- ZTF -------------------------------- *)
ZTF_cols ==
    [c \in {"i:magpsf", "i:sigmapsf", "i:fid", "i:jd", "i:diffmaglim"} |->
        CASE c = "i:magpsf" -> "mag"
          [] c = "i:sigmapsf" -> "mag_err"
          [] c = "i:fid" -> "filter"
          [] c = "i:jd" -> "jd"
          [] c = "i:diffmaglim" -> "limit"]

ZTF_cols_values == {ZTF_cols[c] : c \in DOMAIN ZTF_cols}

\* lc_df['filter'].astype(str).map(filter_map): a code outside 1, 2, 3 maps to
\* NaN
ZTF_filter_map(fid) ==
    CASE fid = 1 -> "g" [] fid = 2 -> "R" [] fid = 3 -> "i" [] OTHER -> NaN

\* lines 219-236: the cone search
ZTF_conesearch(resp) ==
    IF resp.cone \in NetworkErrors THEN Raise(Locals0, resp.cone)
    ELSE IF resp.cone = "non200" THEN Raise(Locals0, "SurveyMetaMissing")
    ELSE IF resp.cone = "badjson" THEN Raise(Locals0, "JSONDecodeError")
    ELSE IF resp.cone = "nomatch" THEN Raise(Locals0, "SurveyMetaMissing")
    ELSE [Locals0 EXCEPT !.status = "match"]

\* a slip: the identifiers stored before the object query is checked (the
\* order ASAS_SN.get_object uses)
ZTF_objects_meta_first(resp, loc) ==
    LET named == [loc EXCEPT
                    !.meta_none = FALSE,
                    !.meta = [k \in {"identifiers"} |->
                                 List(<<[name |-> resp.id, source |-> 3]>>)]]
    IN IF resp.obj \in NetworkErrors THEN Raise(named, resp.obj)
       ELSE IF resp.obj = "non200" \/ resp.body.rows = <<>>
       THEN Raise(named, "SurveyLightCurveMissing")
       ELSE loc

\* lines 238-245: the object query and its check
ZTF_objects(resp, loc) ==
    IF resp.obj \in NetworkErrors THEN Raise(loc, resp.obj)
    ELSE IF resp.obj = "non200" \/ resp.body.rows = <<>>
    THEN Raise(loc, "SurveyLightCurveMissing")
    ELSE loc

\* lines 247-258: identifiers and host names.  resp.twomass, resp.hyperleda:
\* the d:mangrove_* values of result_meta, the first row of the answer
\* ("absent": no such key); the same values are columns of resp.body
ZTF_meta(resp, loc) ==
    LET ids == List(<<[name |-> resp.id, source |-> 3]>>)
        host1 == IF resp.twomass # "absent" /\ resp.twomass # "None"
                 THEN <<[name |-> resp.twomass, source |-> 8]>> ELSE <<>>
        with(h) == [k \in {"identifiers", "host_name"} |->
                       IF k = "identifiers" THEN ids ELSE List(h)]
        named(h) == [loc EXCEPT !.meta_none = FALSE, !.meta = with(h)]
    IN IF resp.twomass # "absent" /\ resp.hyperleda = "absent"
       THEN Raise(named(host1), "KeyError")
       ELSE LET host2 ==
                    IF resp.twomass # "absent" /\ resp.hyperleda # "None"
                    THEN host1 \o <<[name |-> resp.hyperleda, source |-> 8]>>
                    ELSE host1
            IN IF host2 = <<>>
               THEN [loc EXCEPT !.meta_none = FALSE,
                                !.meta = [k \in {"identifiers"} |-> ids]]
               ELSE named(host2)

\* lines 260-280, on pd.read_json(result.content)
ZTF_lightcurve(loc, body) ==
    LET d1 == DfRename(body, ZTF_cols)
    IN IF ~(ZTF_cols_values \subseteq d1.columns)
       THEN Raise([loc EXCEPT !.lc_df = d1], "KeyError")
       ELSE LET d2 == DfSelect(d1, ZTF_cols_values)
                d3 == DfAssign(d2, "mjd", [i \in 1..Len(d2.rows) |->
                                          JdToMjd(d2.rows[i]["jd"])])
                d4 == DfAssign(d3, "filter",
                               [i \in 1..Len(d3.rows) |->
                                   ZTF_filter_map(d3.rows[i]["filter"])])
                d5 == DfDrop(d4, "jd")
                d6 == DfAssignAll(d5, "unit", "main")
                d7 == DfAssignAll(d6, "survey", "ZTF")
            IN [loc EXCEPT !.lc_df = d7]

\* the try body of ZTF.get_object.  resp.cone, resp.obj: what the two
\* requests.post calls do; resp.body: the table of the object query's answer
ZTF_try(resp) ==
    LET l1 == ZTF_conesearch(resp)
        l2 == IF l1.exc = "none" THEN ZTF_objects(resp, l1) ELSE l1
        l3 == IF l2.exc = "none" THEN ZTF_meta(resp, l2) ELSE l2
    IN IF l3.exc = "none" THEN ZTF_lightcurve(l3, resp.body) ELSE l3

(* --------------------------------- ATLAS ------------------------------- *)
ATLAS_raw_columns == {"mjd", "mag", "magerr", "mag5sig", "filter", "expname"}

\* lines 336-345: identifiers and the Sherlock redshift.  resp.designation:
\* atlas_designation ("null": None); resp.sherlock: "none" (no cross-match),
\* "znull" (z is None) or the redshift
ATLAS_meta(resp, loc) ==
    LET id1 == <<[name |-> resp.id, source |-> 1]>>
        ids == IF resp.designation # "null"
               THEN id1 \o <<[name |-> resp.designation, source |-> 2]>>
               ELSE id1
        keys == IF resp.sherlock \in {"none", "znull"}
                THEN {"identifiers"} ELSE {"identifiers", "redshift"}
    IN [loc EXCEPT
          !.meta_none = FALSE,
          !.meta = [k \in keys |->
                       IF k = "identifiers" THEN List(ids)
                       ELSE Scalar([value |-> resp.sherlock, source |-> 7])]]

\* lc_df["expname"].str[:3], an exposure name being a tuple of characters
ATLAS_unit(expname) ==
    SubSeq(expname, 1, IF Len(expname) < 3 THEN Len(expname) ELSE 3)

\* lines 347-354, on result['lc']
ATLAS_lightcurve(loc, lc) ==
    IF ~(ATLAS_raw_columns \subseteq lc.columns)
    THEN Raise(loc, "KeyError")
    ELSE LET d1 == DfRename(DfSelect(lc, ATLAS_raw_columns),
                            [c \in {"magerr", "mag5sig"} |->
                                IF c = "magerr" THEN "mag_err" ELSE "limit"])
             d2 == DfAssign(d1, "unit",
                            [i \in 1..Len(d1.rows) |->
                                ATLAS_unit(d1.rows[i]["expname"])])
             d3 == DfDrop(d2, "expname")
             d4 == DfAssignAll(d3, "survey", "ATLAS")
         IN [loc EXCEPT !.lc_df = d4]

\* the try body of ATLAS.get_object.  resp.cone, resp.curve: what ConeSearch
\* and RequestSingleSourceData do ("nokey": the answer lacks 'object')
ATLAS_try(resp) ==
    IF resp.cone \in NetworkErrors \cup {"ATLASAPIClientError"}
    THEN Raise(Locals0, resp.cone)
    ELSE IF resp.cone = "nokey" THEN Raise(Locals0, "KeyError")
    ELSE IF resp.curve \in NetworkErrors \cup {"ATLASAPIClientError"}
    THEN Raise(Locals0, resp.curve)
    ELSE ATLAS_lightcurve(
             ATLAS_meta(resp, [Locals0 EXCEPT !.status = "match"]), resp.lc)

(* ---------------------------------- TNS -------------------------------- *)
\* lines 425-440.  resp.redshift, resp.hostname: "null" (None), "absent" (no
\* such key) or the value
TNS_meta(resp, loc) ==
    LET f(v) == Scalar([value |-> v, source |-> 0])
        base ==
            [k \in {"identifiers", "ra_deg", "dec_deg", "ra_hms", "dec_dms",
                    "object_type", "discovery_date", "reporting_group",
                    "discovery_data_source"} |->
                CASE k = "identifiers" ->
                        Scalar([name |-> resp.objname, source |-> 0])
                  [] k = "object_type" ->
                        List(<<[value |-> "SN", source |-> 0],
                               [value |-> "SN Ia", source |-> 0]>>)
                  [] OTHER -> f(k)]
        l1 == [loc EXCEPT !.meta_none = FALSE, !.meta = base]
    IN IF resp.redshift = "absent" THEN Raise(l1, "KeyError")
       ELSE LET m2 == IF resp.redshift # "null"
                      THEN DictSet(base, "redshift", f(resp.redshift))
                      ELSE base
                l2 == [l1 EXCEPT !.meta = m2]
            IN IF resp.hostname = "absent" THEN Raise(l2, "KeyError")
               ELSE IF resp.hostname # "null"
               THEN [l2 EXCEPT
                       !.meta = DictSet(m2, "host_name", f(resp.hostname))]
               ELSE l2

\* the try body of TNS.get_object.  resp.post: what requests.post and
\* json.loads do ("nodata": no "data" key; "nokey": "data" lacks a key read at
\* lines 426-435)
TNS_try(resp) ==
    IF resp.post \in NetworkErrors THEN Raise(Locals0, resp.post)
    ELSE IF resp.post = "badjson" THEN Raise(Locals0, "JSONDecodeError")
    ELSE IF resp.post = "nodata" THEN Raise(Locals0, "SurveyMetaMissing")
    ELSE IF resp.post = "nokey"
    THEN Raise([Locals0 EXCEPT !.status = "query success"], "KeyError")
    ELSE TNS_meta(resp, [Locals0 EXCEPT !.status = "query success"])

(* ------------------------------ get_object ----------------------------- *)
TryBody(module, resp) ==
    CASE module = "asas-sn" -> ASAS_SN_try(resp)
      [] module = "ztf" -> ZTF_try(resp)
      [] module = "atlas" -> ATLAS_try(resp)
      [] module = "tns" -> TNS_try(resp)

\* the adapter the spec describes: a network failure is raised to the caller
\* as a TransientFailure
get_object_transient(module, resp) ==
    LET loc == TryBody(module, resp)
    IN IF loc.exc \in NetworkErrors
       THEN FinallyWithoutReturn(loc, "TransientFailure")
       ELSE Finally(loc, Except(module, loc))

\* try: ... except ...: ... finally: return meta, lc_df
get_object(module, resp) ==
    LET loc == TryBody(module, resp)
    IN Finally(loc, Except(module, loc))

(* ------------------------------ alerts.py ------------------------------ *)
\* config["tns"]["email"]
TNS_EMAIL == "tns@wis-tns.org"

\* 30 * 60
REFRESH_SECONDS == 1800

\* A message: the words of its From header and the texts of the anchors of
\* its HTML body.
Messages ==
    {[from |-> <<"TNS", TNS_EMAIL>>, anchors |-> <<"2025abc", "">>],
     [from |-> <<"Alice", "alice@example.org">>, anchors |-> <<"click">>]}

\* a slip: the From header is compared with the notifier's address as a whole
\* (==) instead of searched for it (in)
parse_message_whole_header(msg) ==
    IF msg.from = <<TNS_EMAIL>>
    THEN [none |-> FALSE,
          alerts |-> SelectSeq(msg.anchors, LAMBDA a : a # "")]
    ELSE [none |-> TRUE, alerts |-> <<>>]

\* Gmail.parse_message: None unless a From header holds the notifier's
\* address; then the non-empty anchor texts
parse_message(msg) ==
    IF TNS_EMAIL \in Range(msg.from)
    THEN [none |-> FALSE,
          alerts |-> SelectSeq(msg.anchors, LAMBDA a : a # "")]
    ELSE [none |-> TRUE, alerts |-> <<>>]

Threads == 1..MaxThreads

\* a slip: the query is "is:read", so the list call returns the messages that
\* have been read
ListRead ==
    SortBy((1..Len(mail)) \ unread, [m \in (1..Len(mail)) \ unread |-> m])

\* list(userId="me", labelIds=["INBOX"], q="is:unread"): the unread ids
ListUnread == SortBy(unread, [m \in unread |-> m])

\* the top of `while not self.stop_event.is_set()`: where the thread goes
\* next, lines 148-157
LoopTop(lr) ==
    IF stop_event THEN "exit"
    ELSE IF now - lr >= REFRESH_SECONDS THEN "refresh"
    ELSE "list"

\* thread th is back at the top of its loop
Continue(th) ==
    /\ pc' = [pc EXCEPT ![th] = LoopTop(last_refresh[th])]
    /\ last_refresh' =
          [last_refresh EXCEPT
              ![th] = IF LoopTop(@) = "refresh" THEN now ELSE @]

\* thread th is done with the head of its batch: `for message in messages`
NextMessage(th) ==
    /\ batch' = [batch EXCEPT ![th] = Tail(@)]
    /\ IF Tail(batch[th]) = <<>>
       THEN Continue(th)
       ELSE /\ pc' = [pc EXCEPT ![th] = "fetch"]
            /\ UNCHANGED last_refresh

\* self.q = Queue(): maxsize 0, a queue without an upper bound
QUEUE_MAXSIZE == 0

\* Queue.full(): 0 < maxsize <= qsize
Full == 0 < QUEUE_MAXSIZE /\ QUEUE_MAXSIZE <= Len(q)

\* a slip: the monitoring thread clears the unread flag of a message as it
\* puts it on the queue
PutAndMarkRead(m, alerts) ==
    /\ ~Full
    /\ Len(q) < MaxQueue
    /\ q' = Append(q, [message |-> m, alerts |-> alerts])
    /\ handed' = handed \cup {[message |-> m, alerts |-> alerts]}
    /\ unread' = unread \ {m}

\* self.q.put((message, alerts)), line 180: it waits while the queue is full.
\* MaxQueue only ends the exploration.
Put(m, alerts) ==
    /\ ~Full
    /\ Len(q) < MaxQueue
    /\ q' = Append(q, [message |-> m, alerts |-> alerts])
    /\ handed' = handed \cup {[message |-> m, alerts |-> alerts]}
    /\ UNCHANGED unread

\* Gmail.monitor_notices: a new thread, about to run _monitoring_thread
MonitorNotices ==
    /\ caller = "running"
    /\ self_t < MaxThreads
    /\ self_t' = self_t + 1
    /\ pc' = [pc EXCEPT ![self_t + 1] = "boot"]
    /\ UNCHANGED <<purevars, aggvars, tns, ingest, mail, unread, now, stop_event, q, batch, last_refresh,
                   caller, c_pc, c_msg, faults, crashes, handed, lost>>

\* lines 146-147, and the first test of the loop
Boot(th) ==
    /\ pc[th] = "boot"
    /\ pc' = [pc EXCEPT ![th] = LoopTop(now)]
    /\ last_refresh' = [last_refresh EXCEPT ![th] = now]
    /\ UNCHANGED <<purevars, aggvars, tns, ingest, mail, unread, now, self_t, stop_event, q, batch, caller,
                   c_pc, c_msg, faults, crashes, handed, lost>>

\* lines 151-153: creds.refresh and the new service object are done
Refresh(th) ==
    /\ pc[th] = "refresh"
    /\ pc' = [pc EXCEPT ![th] = "list"]
    /\ UNCHANGED <<purevars, aggvars, tns, ingest, mail, unread, now, self_t, stop_event, q, batch,
                   last_refresh, caller, c_pc, c_msg, faults, crashes,
                   handed, lost>>

\* lines 157-167: the list call returns
List_(th) ==
    /\ pc[th] = "list"
    /\ batch' = [batch EXCEPT ![th] = ListUnread]
    /\ pc' = [pc EXCEPT ![th] = IF ListUnread = <<>> THEN "sleep" ELSE "fetch"]
    /\ UNCHANGED <<purevars, aggvars, tns, ingest, mail, unread, now, self_t, stop_event, q, last_refresh,
                   caller, c_pc, c_msg, faults, crashes, handed, lost>>

\* time.sleep(polling_interval) is over
Sleep(th) ==
    /\ pc[th] = "sleep"
    /\ Continue(th)
    /\ UNCHANGED <<purevars, aggvars, tns, ingest, mail, unread, now, self_t, stop_event, q, batch, caller,
                   c_pc, c_msg, faults, crashes, handed, lost>>

\* lines 171-180: parse_message returns; a message that is not the
\* notifier's goes to mark_read, any other is put on the queue
Fetch(th) ==
    /\ pc[th] = "fetch"
    /\ LET m == Head(batch[th])
           alerts == parse_message(mail[m])
       IN IF alerts.none
          THEN /\ pc' = [pc EXCEPT ![th] = "mark"]
               /\ UNCHANGED <<q, handed, unread, batch, last_refresh>>
          ELSE /\ Put(m, alerts.alerts)
               /\ NextMessage(th)
    /\ UNCHANGED <<purevars, aggvars, tns, ingest, mail, now, self_t, stop_event, caller, c_pc,
                   c_msg, faults, crashes, lost>>

\* line 174: the thread's own mark_read returns
Mark(th) ==
    /\ pc[th] = "mark"
    /\ unread' = unread \ {Head(batch[th])}
    /\ NextMessage(th)
    /\ UNCHANGED <<purevars, aggvars, tns, ingest, mail, now, self_t, stop_event, q, caller, c_pc, c_msg,
                   faults, crashes, handed, lost>>

\* a mailbox call (refresh, list, get, modify) raises: nothing in
\* _monitoring_thread catches it, and the thread ends
Fault(th) ==
    /\ pc[th] \in {"refresh", "list", "fetch", "mark"}
    /\ faults < MaxFaults
    /\ faults' = faults + 1
    /\ pc' = [pc EXCEPT ![th] = "dead"]
    /\ UNCHANGED <<purevars, aggvars, tns, ingest, mail, unread, now, self_t, stop_event, q, batch,
                   last_refresh, caller, c_pc, c_msg, crashes, handed, lost>>

\* Gmail.stop_monitoring up to the join, lines 132-135
StopMonitoring ==
    /\ caller = "running"
    /\ self_t # 0
    /\ stop_event' = TRUE
    /\ caller' = "joining"
    /\ UNCHANGED <<purevars, aggvars, tns, ingest, mail, unread, now, self_t, q, pc, batch, last_refresh,
                   c_pc, c_msg, faults, crashes, handed, lost>>

\* self.t.join() returns: the thread started last has ended
Joined ==
    /\ caller = "joining"
    /\ pc[self_t] \in {"exit", "dead"}
    /\ caller' = "stopped"
    /\ UNCHANGED <<purevars, aggvars, tns, ingest, mail, unread, now, self_t, stop_event, q, pc, batch,
                   last_refresh, c_pc, c_msg, faults, crashes, handed, lost>>

\* Gmail.poll returns an entry
Poll ==
    /\ c_pc = "idle"
    /\ q # <<>>
    /\ c_msg' = Head(q)
    /\ q' = Tail(q)
    /\ c_pc' = "got"
    /\ UNCHANGED <<purevars, aggvars, tns, ingest, mail, unread, now, self_t, stop_event, pc, batch,
                   last_refresh, caller, faults, crashes, handed, lost>>

\* the consumer is done with the candidates and calls Gmail.mark_read
MarkReadCall ==
    /\ c_pc = "got"
    /\ c_pc' = "marking"
    /\ UNCHANGED <<purevars, aggvars, tns, ingest, mail, unread, now, self_t, stop_event, q, pc, batch,
                   last_refresh, caller, c_msg, faults, crashes, handed,
                   lost>>

\* Gmail.mark_read returns, lines 108-110
MarkReadReturn ==
    /\ c_pc = "marking"
    /\ unread' = unread \ {c_msg.message}
    /\ c_pc' = "idle"
    /\ UNCHANGED <<purevars, aggvars, tns, ingest, mail, now, self_t, stop_event, q, pc, batch,
                   last_refresh, caller, c_msg, faults, crashes, handed,
                   lost>>

\* a message arrives in the inbox
Arrive ==
    /\ Len(mail) < MaxMsgs
    /\ \E msg \in Messages : mail' = Append(mail, msg)
    /\ unread' = unread \cup {Len(mail) + 1}
    /\ UNCHANGED <<purevars, aggvars, tns, ingest, now, self_t, stop_event, q, pc, batch, last_refresh,
                   caller, c_pc, c_msg, faults, crashes, handed, lost>>

\* half an hour passes
Tick ==
    /\ now < MaxTicks * REFRESH_SECONDS
    /\ now' = now + REFRESH_SECONDS
    /\ UNCHANGED <<purevars, aggvars, tns, ingest, mail, unread, self_t, stop_event, q, pc, batch,
                   last_refresh, caller, c_pc, c_msg, faults, crashes,
                   handed, lost>>

\* TarxivTNS.monitor_notices has not been called
IngestOff == [pc |-> "off", batch |-> <<>>, objs |-> <<>>]

\* no poll result held
NoEntry == [message |-> 0, alerts |-> <<>>]

\* The process dies and is started again: a new Gmail object (lines 53-58),
\* no thread, an empty queue; the mailbox is the mail server's and stays.
Crash ==
    /\ crashes < MaxCrashes
    /\ crashes' = crashes + 1
    /\ lost' = {e \in lost \cup handed : e.message \in unread}
    /\ handed' = {}
    /\ self_t' = 0
    /\ stop_event' = FALSE
    /\ q' = <<>>
    /\ pc' = [th \in Threads |-> "unborn"]
    /\ batch' = [th \in Threads |-> <<>>]
    /\ last_refresh' = [th \in Threads |-> 0]
    /\ caller' = "running"
    /\ c_pc' = "idle"
    /\ c_msg' = NoEntry
    /\ ingest' = IngestOff
    /\ UNCHANGED <<purevars, aggvars, tns, mail, unread, now, faults>>

InitMonitor ==
    /\ mail = <<>>
    /\ unread = {}
    /\ now = 0
    /\ self_t = 0
    /\ stop_event = FALSE
    /\ q = <<>>
    /\ pc = [th \in Threads |-> "unborn"]
    /\ batch = [th \in Threads |-> <<>>]
    /\ last_refresh = [th \in Threads |-> 0]
    /\ caller = "running"
    /\ c_pc = "idle"
    /\ c_msg = NoEntry
    /\ faults = 0
    /\ crashes = 0
    /\ handed = {}
    /\ lost = {}
    /\ ingest = IngestOff

\* the variables of the monitor, at rest
NoMonitor == InitMonitor

(* ----------------------------- tns_alerts.py --------------------------- *)
\* what the steps of TarxivTNS.monitor_notices leave alone
IngestFrame ==
    UNCHANGED <<purevars, aggvars, tns, mail, now, self_t, stop_event, q, pc, batch,
                last_refresh, caller, c_pc, c_msg, faults, crashes, lost>>

\* bin/ingest_tns.py: TarxivTNS.monitor_notices is entered, lines 115-117
IngestStart ==
    /\ ingest.pc = "off"
    /\ self_t = 0
    /\ ingest' = [ingest EXCEPT !.pc = "list"]
    /\ UNCHANGED <<unread, handed>>
    /\ IngestFrame

\* lines 120-126: the list call returns
IngestList ==
    /\ ingest.pc = "list"
    /\ ingest' = [ingest EXCEPT
                     !.pc = IF ListUnread = <<>> THEN "sleep" ELSE "get",
                     !.batch = ListUnread]
    /\ UNCHANGED <<unread, handed>>
    /\ IngestFrame

\* time.sleep(5) is over, lines 129-131
IngestSleep ==
    /\ ingest.pc = "sleep"
    /\ ingest' = [ingest EXCEPT !.pc = "list"]
    /\ UNCHANGED <<unread, handed>>
    /\ IngestFrame

\* a slip: process_message clears the unread flag before the entries of the
\* candidates are upserted
ProcessMessageMarkFirst ==
    /\ ingest.pc = "get"
    /\ LET m == Head(ingest.batch)
           alerts == parse_message(mail[m])
       IN /\ ingest' = [ingest EXCEPT
                           !.pc = IF alerts.alerts = <<>> THEN "modify"
                                  ELSE "upsert",
                           !.objs = alerts.alerts]
          /\ handed' = IF alerts.none THEN handed
                       ELSE handed \cup
                              {[message |-> m, alerts |-> alerts.alerts]}
          /\ unread' = unread \ {m}
    /\ IngestFrame

\* TarxivTNS.process_message, lines 141-151: the message is fetched and its
\* candidates are read off; they are now being upserted
ProcessMessage ==
    /\ ingest.pc = "get"
    /\ LET m == Head(ingest.batch)
           alerts == parse_message(mail[m])
       IN /\ ingest' = [ingest EXCEPT
                           !.pc = IF alerts.alerts = <<>> THEN "modify"
                                  ELSE "upsert",
                           !.objs = alerts.alerts]
          /\ handed' = IF alerts.none THEN handed
                       ELSE handed \cup
                              {[message |-> m, alerts |-> alerts.alerts]}
          /\ UNCHANGED unread
    /\ IngestFrame

\* what the TNS server does with the request of get_entry: it answers with
\* the object ("ok"), with JSON that holds no "data" ("nodata"), with
\* something that is not JSON, or the request fails
TnsReplies == {"ok", "nodata", "badjson"} \cup NetworkErrors

\* what the store does with an upsert
StoreOutcomes == {"ok", "CouchbaseException"}

\* TarxivTNS.get_entry, lines 72-88: the exception it raises ("none": it
\* returns json.loads(response.text)["data"]["reply"])
get_entry(reply) ==
    CASE reply \in NetworkErrors -> reply
      [] reply = "badjson" -> "JSONDecodeError"
      [] reply = "nodata" -> "KeyError"
      [] OTHER -> "none"

\* TarxivDB.upsert: the exception it raises
upsert(store) == IF store = "ok" THEN "none" ELSE store

\* lines 154-158 for the first candidate left: get_entry, then upsert.  No
\* try statement is around them, in process_message or in monitor_notices, so
\* an exception of either leaves the loop of monitor_notices.
IngestLookup(reply, store) ==
    /\ ingest.pc = "upsert"
    /\ LET exc == IF get_entry(reply) # "none" THEN get_entry(reply)
                  ELSE upsert(store)
       IN ingest' =
            IF exc # "none" THEN [ingest EXCEPT !.pc = "raised"]
            ELSE [ingest EXCEPT
                     !.pc = IF Tail(ingest.objs) = <<>> THEN "modify"
                            ELSE "upsert",
                     !.objs = Tail(ingest.objs)]
    /\ UNCHANGED <<unread, handed>>
    /\ IngestFrame

\* lines 154-158: get_entry and upsert of one candidate, both succeeding
IngestUpsert == IngestLookup("ok", "ok")

\* lines 154-158: get_entry or upsert raises
IngestUpsertRaises ==
    \E reply \in TnsReplies, store \in StoreOutcomes :
        /\ <<reply, store>> # <<"ok", "ok">>
        /\ IngestLookup(reply, store)

\* lines 160-164: the modify call returns; on to the next message, or to the
\* top of the loop
IngestModify ==
    /\ ingest.pc = "modify"
    /\ unread' = unread \ {Head(ingest.batch)}
    /\ ingest' = [ingest EXCEPT
                     !.pc = IF Tail(ingest.batch) = <<>> THEN "list"
                            ELSE "get",
                     !.batch = Tail(ingest.batch)]
    /\ UNCHANGED handed
    /\ IngestFrame

\* the loop of TarxivTNS.monitor_notices
Ingest ==
    \/ IngestList
    \/ IngestSleep
    \/ ProcessMessage
    \/ IngestUpsert
    \/ IngestModify

(* ------------------------------ utils.py ------------------------------ *)
clean_meta(obj_meta) ==
    LET nonempty ==
            [k \in {k \in DOMAIN obj_meta : obj_meta[k] # <<>>} |-> obj_meta[k]]
    IN [k \in {k \in DOMAIN nonempty : Len(nonempty[k]) = 1} |->
           Scalar(nonempty[k][1])]

(* ---------------------- inputs of the pure functions ------------------ *)
\* a metadata datum with its provenance
MetaItems == [value : {"a", "b"}, source : {0}]

\* object meta schemas handed to meta_add_peak_mags
PeakMetas ==
    {[k \in {"identifiers", "redshift"} |-> <<>>],
     [k \in {"identifiers", "redshift"} |->
         IF k = "identifiers" THEN <<[value |-> "a", source |-> 0]>>
         ELSE <<>>]}

\* the fields of the records handed to clean_meta
CleanFields == {"identifiers", "object_type", "redshift"}

(* ------------------ specification: meta_add_peak_mags ----------------- *)
\* get_object has not returned
NotReturned ==
    [raised |-> "pending", meta_none |-> TRUE, meta |-> EmptyDict,
     lc_df |-> EmptyDataFrame]

\* clean_meta has not been called
NotCleaned == [k \in {"?"} |-> Scalar([value |-> "?", source |-> 0])]

\* no aggregation is under way
AggIdle ==
    [run |-> 0, pc |-> "idle", next |-> 0, meta |-> Pending, lc |-> <<>>,
     prev |-> EmptyDict, out |-> <<>>]

NoAggregate == agg_in = EmptyDict /\ agg = AggIdle

\* no request has been sent to the TNS server
NoLookup ==
    [clock |-> 0, last |-> 0, gap |-> 0, n |-> 0, followed |-> FALSE,
     lgap |-> 0, ret |-> NotReturned, exc |-> "none"]

NoTns == tns = NoLookup

\* the variables of the other specifications, at rest
NoPeak == lc_in = <<>> /\ meta_in = EmptyDict /\ peak_ret = Pending
NoClean == clean_in = EmptyDict /\ clean_ret = NotCleaned
NoAdapter == adapter = "none" /\ answer = EmptyDict /\ get_ret = NotReturned

InitPeak ==
    /\ lc_in \in BoundedSeq(LcRows, MaxRows)
    /\ meta_in \in PeakMetas
    /\ peak_ret = Pending
    /\ NoClean /\ NoAdapter /\ NoMonitor /\ NoAggregate /\ NoTns

CallPeak ==
    /\ peak_ret = Pending
    /\ peak_ret' = meta_add_peak_mags(meta_in, lc_in)
    /\ UNCHANGED <<lc_in, meta_in, clean_in, clean_ret, adapter, answer,
                   get_ret, monvars, aggvars, tns>>

NextPeak == CallPeak

SpecPeak == InitPeak /\ [][NextPeak]_vars

(* ----------------------- specification: clean_meta -------------------- *)
InitClean ==
    /\ clean_in \in [CleanFields -> BoundedSeq(MetaItems, MaxLen)]
    /\ clean_ret = NotCleaned
    /\ NoPeak /\ NoAdapter /\ NoMonitor /\ NoAggregate /\ NoTns

CallClean ==
    /\ clean_ret = NotCleaned
    /\ clean_ret' = clean_meta(clean_in)
    /\ UNCHANGED <<lc_in, meta_in, peak_ret, clean_in, adapter, answer,
                   get_ret, monvars, aggvars, tns>>

NextClean == CallClean

SpecClean == InitClean /\ [][NextClean]_vars

(* ----------------------- specification: get_object -------------------- *)
\* the tables a service answers with: at most MaxSurveyRows of the given raw
\* rows, with every column or without the column `dropped`
Tables(rawrows, columns, dropped) ==
    {EmptyDataFrame} \cup
    {[columns |-> cols,
      rows |-> [i \in 1..Len(rows) |-> [c \in cols |-> rows[i][c]]]] :
        rows \in BoundedSeq(rawrows, MaxSurveyRows) \ {<<>>},
        cols \in {columns, columns \ {dropped}}}

\* the first night of the raw rows, in half days (jd)
Jd0 == MJD_OFFSET_HALFDAYS + 2

AsasRawRows ==
    {[c \in ASAS_SN_raw_columns |->
         CASE c = "jd" -> Jd0 [] c = "mag" -> 1 [] c = "mag_err" -> r.err
           [] c = "limit" -> 3 [] c = "phot_filter" -> "g"
           [] c = "camera" -> "ba" [] c = "quality" -> r.quality] :
        r \in {[err |-> 1, quality |-> "G"], [err |-> 1, quality |-> "B"],
               [err |-> 99, quality |-> "G"]}}

AsasResponses ==
    {[query |-> outcome, id |-> "0", data |-> EmptyDataFrame] :
        outcome \in NetworkErrors \cup {"null"}} \cup
    {[query |-> "ok", id |-> "17181160895", data |-> d] :
        d \in Tables(AsasRawRows, ASAS_SN_raw_columns, "limit")}

ZtfRawColumns == (DOMAIN ZTF_cols) \cup {"i:objectId"}

ZtfRawRows ==
    {[c \in ZtfRawColumns |->
         CASE c = "i:jd" -> Jd0 [] c = "i:magpsf" -> 1
           [] c = "i:sigmapsf" -> r.err [] c = "i:fid" -> r.fid
           [] c = "i:diffmaglim" -> 3 [] c = "i:objectId" -> "ZTF24abeiqfc"] :
        r \in {[err |-> 1, fid |-> 1], [err |-> 1, fid |-> 4],
               [err |-> 99, fid |-> 2]}}

\* The table pd.read_json makes of the object query's answer (line 270): every
\* key of the rows is a column, so the d:mangrove_* keys that the answer
\* carries on each line of photometry (t, h: their values, "absent": no such
\* key) are columns beside the photometry
ZtfBody(b, t, h) ==
    LET b1 == IF t = "absent" THEN b
              ELSE DfAssignAll(b, "d:mangrove_2MASS_name", t)
    IN IF h = "absent" THEN b1
       ELSE DfAssignAll(b1, "d:mangrove_HyperLEDA_name", h)

ZtfResponses ==
    {[cone |-> c, obj |-> "ok", id |-> "0", twomass |-> "absent",
      hyperleda |-> "absent", body |-> EmptyDataFrame] :
        c \in NetworkErrors \cup {"non200", "badjson", "nomatch"}} \cup
    {[cone |-> "match", obj |-> o, id |-> "ZTF24abeiqfc",
      twomass |-> "absent", hyperleda |-> "absent",
      body |-> EmptyDataFrame] :
        o \in NetworkErrors \cup {"non200", "ok"}} \cup
    {[cone |-> "match", obj |-> "ok", id |-> "ZTF24abeiqfc", twomass |-> t,
      hyperleda |-> h, body |-> ZtfBody(b, t, h)] :
        t \in {"absent", "None", "2MASX J1"},
        h \in {"absent", "None", "PGC 1"},
        b \in Tables(ZtfRawRows, ZtfRawColumns, "i:diffmaglim")
                 \ {EmptyDataFrame}}

AtlasRawRows ==
    {[c \in ATLAS_raw_columns |->
         CASE c = "mjd" -> 2 [] c = "mag" -> 1 [] c = "magerr" -> err
           [] c = "mag5sig" -> 3 [] c = "filter" -> "o"
           [] c = "expname" -> <<"0", "2", "a", "6">>] : err \in {1, 99}}

AtlasResponses ==
    {[cone |-> c, curve |-> "ok", id |-> "0", designation |-> "null",
      sherlock |-> "none", lc |-> EmptyDataFrame] :
        c \in NetworkErrors \cup {"ATLASAPIClientError", "nokey"}} \cup
    {[cone |-> "ok", curve |-> c, id |-> "0", designation |-> "null",
      sherlock |-> "none", lc |-> EmptyDataFrame] :
        c \in NetworkErrors \cup {"ATLASAPIClientError"}} \cup
    {[cone |-> "ok", curve |-> "ok", id |-> "1063629090302540900",
      designation |-> d, sherlock |-> z, lc |-> t] :
        d \in {"null", "ATLAS25abc"}, z \in {"none", "znull", "0.03"},
        t \in Tables(AtlasRawRows, ATLAS_raw_columns, "mag5sig")}

TnsResponses ==
    {[post |-> p, objname |-> "0", redshift |-> "null",
      hostname |-> "null"] :
        p \in NetworkErrors \cup {"badjson", "nodata", "nokey"}} \cup
    {[post |-> "ok", objname |-> "2025abc", redshift |-> z, hostname |-> h] :
        z \in {"absent", "null", "0.003"}, h \in {"absent", "null", "NGC1234"}}

Responses(m) ==
    CASE m = "asas-sn" -> AsasResponses
      [] m = "ztf" -> ZtfResponses
      [] m = "atlas" -> AtlasResponses
      [] m = "tns" -> TnsResponses

InitAdapters ==
    /\ adapter \in {"asas-sn", "ztf", "atlas", "tns"}
    /\ answer \in Responses(adapter)
    /\ get_ret = NotReturned
    /\ NoPeak /\ NoClean /\ NoMonitor /\ NoAggregate /\ NoTns

Call(m) ==
    /\ adapter = m
    /\ get_ret = NotReturned
    /\ get_ret' = get_object(m, answer)
    /\ UNCHANGED <<lc_in, meta_in, peak_ret, clean_in, clean_ret, adapter,
                   answer, monvars, aggvars, tns>>

ASAS_SN_get_object == Call("asas-sn")
ZTF_get_object == Call("ztf")
ATLAS_get_object == Call("atlas")
TNS_get_object == Call("tns")

NextAdapters ==
    \/ ASAS_SN_get_object
    \/ ZTF_get_object
    \/ ATLAS_get_object
    \/ TNS_get_object

SpecAdapters == InitAdapters /\ [][NextAdapters]_vars

(* --------------------- specification: aggregation --------------------- *)
\* the order the adapters are merged in: the TNS seed, then the surveys
AdapterOrder == <<"tns", "atlas", "ztf", "asas-sn">>

\* aux/schema.json: every field an adapter writes, and sources, each an empty
\* list
EmptySchema == [f \in DOMAIN FieldRank \cup {"sources"} |-> <<>>]

\* TarxivDB.get_object_schema: the file is read anew on every call, whatever
\* became of the dict handed out before (used)
get_object_schema(used) == EmptySchema

\* what an adapter can return, its light curve in the columns of the contract
\* and of at most MaxAggRows rows
AggResults(m) ==
    {r \in {get_object(m, resp) : resp \in Responses(m)} :
        /\ r.lc_df.columns \in {{}, NormalColumns}
        /\ Len(r.lc_df.rows) <= MaxAggRows}

InitAggregate ==
    /\ \E t \in AggResults("tns"), a \in AggResults("atlas"),
          z \in AggResults("ztf"), s \in AggResults("asas-sn") :
            agg_in = [m \in Range(AdapterOrder) |->
                         CASE m = "tns" -> t [] m = "atlas" -> a
                           [] m = "ztf" -> z [] m = "asas-sn" -> s]
    /\ agg = [run |-> 1, pc |-> "merge", next |-> 1,
              meta |-> [type |-> "dict", dict |-> get_object_schema(EmptyDict)],
              lc |-> <<>>, prev |-> EmptyDict, out |-> <<>>]
    /\ NoPeak /\ NoClean /\ NoAdapter /\ NoMonitor /\ NoTns

\* step 3: obj_meta = survey.update_object_meta(obj_meta, meta) and the union
\* of the light-curve rows, for the next adapter.  The call is handed the
\* adapter's own dict, so what it leaves in it is what the adapter's answer
\* holds from now on.
Merge ==
    /\ agg.pc = "merge"
    /\ LET m == AdapterOrder[agg.next]
           r == agg_in[m]
           u == update_object_meta(m, agg.meta.dict, r.meta_none, r.meta)
           left == update_object_meta_leaves(m, agg.meta.dict, r.meta_none,
                                            r.meta)
       IN /\ agg' = [agg EXCEPT
                       !.meta = [type |-> "dict", dict |-> u.dict],
                       !.prev = agg.meta.dict,
                       !.lc = @ \o r.lc_df.rows,
                       !.next = @ + 1,
                       !.pc = IF u.raised # "none" THEN "raised"
                              ELSE IF agg.next = Len(AdapterOrder) THEN "peak"
                              ELSE "merge"]
          /\ agg_in' = [agg_in EXCEPT ![m].meta = left]
    /\ UNCHANGED <<purevars, monvars, tns>>

\* step 4: obj_meta = survey.meta_add_peak_mags(obj_meta, lc_df)
AddPeakMags ==
    /\ agg.pc = "peak"
    /\ agg' = [agg EXCEPT !.meta = meta_add_peak_mags(agg.meta.dict, agg.lc),
                          !.pc = "clean"]
    /\ UNCHANGED <<purevars, monvars, agg_in, tns>>

\* step 5: clean_meta(obj_meta)
Finalize ==
    /\ agg.pc = "clean"
    /\ agg' = [agg EXCEPT !.out = Append(@, clean_meta(agg.meta.dict)),
                          !.pc = "done"]
    /\ UNCHANGED <<purevars, monvars, agg_in, tns>>

\* the same object is aggregated once more, from the adapter answers as the
\* first run left them and a schema read anew
Again ==
    /\ agg.pc = "done"
    /\ agg.run = 1
    /\ agg' = [agg EXCEPT
                 !.run = 2, !.pc = "merge", !.next = 1, !.lc = <<>>,
                 !.meta = [type |-> "dict",
                           dict |-> get_object_schema(agg.meta.dict)]]
    /\ UNCHANGED <<purevars, monvars, agg_in, tns>>

NextAggregate == Merge \/ AddPeakMags \/ Finalize \/ Again

SpecAggregate == InitAggregate /\ [][NextAggregate]_vars

(* ---------------------- specification: the monitor -------------------- *)
Init == InitMonitor /\ NoPeak /\ NoClean /\ NoAdapter /\ NoAggregate /\ NoTns

\* Gmail.monitor_notices, called once in the life of the process
Start == self_t = 0 /\ ingest.pc = "off" /\ MonitorNotices

Consumer == Poll \/ MarkReadCall \/ MarkReadReturn

Next ==
    \/ Start
    \/ StopMonitoring
    \/ Joined
    \/ \E th \in Threads : Boot(th)
    \/ \E th \in Threads : Refresh(th)
    \/ \E th \in Threads : List_(th)
    \/ \E th \in Threads : Sleep(th)
    \/ \E th \in Threads : Fetch(th)
    \/ \E th \in Threads : Mark(th)
    \/ \E th \in Threads : Fault(th)
    \/ Consumer
    \/ Arrive
    \/ Tick
    \/ Crash

Spec == Init /\ [][Next]_vars

(* ------------- specification: monitor_notices called repeatedly -------- *)
NextThreads == Next \/ (ingest.pc = "off" /\ MonitorNotices)

SpecThreads == Init /\ [][NextThreads]_vars

(* --- specification: either program left running, its calls succeeding -- *)
Loop(th) ==
    Boot(th) \/ Refresh(th) \/ List_(th) \/ Sleep(th) \/ Fetch(th) \/ Mark(th)

NextFair ==
    \/ Start
    \/ \E th \in Threads : Loop(th)
    \/ Consumer
    \/ IngestStart
    \/ Ingest
    \/ Arrive
    \/ Tick
    \/ Crash

FairSpec ==
    /\ Init
    /\ [][NextFair]_vars
    /\ WF_vars(Start \/ IngestStart)
    /\ \A th \in Threads : WF_vars(Loop(th))
    /\ WF_vars(Consumer)
    /\ WF_vars(Ingest)

(* ---------------- specification: requests to the TNS server ------------ *)
\* time.sleep(secs) entered at time t: when it returns
sleep(t, secs) == t + secs

\* a slip: the wait follows the reply instead of preceding the request, so a
\* lookup that fails returns without having waited
LookupTimesWaitAfter(t, ok) ==
    [request |-> t, return |-> IF ok THEN sleep(t, rate_limit) ELSE t]

\* A lookup entered at time t: when its requests.post is issued and when it
\* returns, at the earliest.  time.sleep(rate_limit) is the first statement of
\* TarxivTNS.get_entry (line 74) and of the try body of TNS.get_object (line
\* 405), ahead of every branch.
LookupTimes(t, ok) ==
    [request |-> sleep(t, rate_limit), return |-> sleep(t, rate_limit)]

\* The caller's record once a lookup entered at time t has returned.  gap:
\* the smallest distance of a request of the last call from the request before
\* it; lgap: the same over the requests of lookups only (followed: there is
\* such a request, a lookup's request that was not the caller's first).
Looked(t, ok, ret, exc) ==
    LET tm == LookupTimes(t, ok)
    IN [clock |-> tm.return, last |-> tm.request,
        gap |-> IF tns.n = 0 THEN 0 ELSE tm.request - tns.last,
        n |-> tns.n + 1, followed |-> tns.n # 0,
        lgap |-> IF tns.n = 0 THEN 0 ELSE tm.request - tns.last,
        ret |-> ret, exc |-> exc]

InitTns ==
    /\ tns = NoLookup
    /\ NoPeak /\ NoClean /\ NoAdapter /\ NoMonitor /\ NoAggregate

\* what the TNS server does with the request of download_bulk_tns: it answers
\* with the zip file ("ok"), with something that is no zip file, or the request
\* fails
BulkAnswers == {"ok", "badzip"} \cup NetworkErrors

\* requests.post and zipfile.ZipFile of download_bulk_tns: the exception they
\* raise.  Neither download_bulk_tns has a try statement.
bulk_post(a) ==
    CASE a \in NetworkErrors -> a
      [] a = "badzip" -> "BadZipFile"
      [] OTHER -> "none"

\* the caller's record once the request of download_bulk_tns, entered at time
\* t, is answered: requests.post is issued with no time.sleep ahead of it
\* (data_sources.py:467, tns_alerts.py:100)
Downloaded(t, exc) ==
    [clock |-> t, last |-> t,
     gap |-> IF tns.n = 0 THEN 0 ELSE t - tns.last,
     n |-> tns.n + 1, followed |-> FALSE, lgap |-> 0,
     ret |-> NotReturned, exc |-> exc]

\* what becomes of one name of the CSV: the reply to get_entry and what the
\* store does with the upsert
BulkOutcomes == {[reply |-> r, store |-> st] : r \in TnsReplies, st \in StoreOutcomes}

\* tns_alerts.py:109-113: for each name get_entry, then upsert; an exception of
\* either leaves the loop.  rec.gap is the smallest distance of a request of
\* this call from the request before it (nogap: no request came before).
RECURSIVE BulkLoop(_, _, _)
BulkLoop(rec, outs, nogap) ==
    IF outs = <<>> THEN rec
    ELSE LET o == Head(outs)
             tm == LookupTimes(rec.clock, o.reply = "ok")
             d == tm.request - rec.last
             exc == IF get_entry(o.reply) # "none" THEN get_entry(o.reply)
                    ELSE upsert(o.store)
             r1 == [rec EXCEPT !.clock = tm.return, !.last = tm.request,
                               !.gap = IF nogap \/ d < rec.gap THEN d
                                       ELSE rec.gap,
                               !.followed = TRUE,
                               !.lgap = IF ~rec.followed \/ d < rec.lgap
                                        THEN d ELSE rec.lgap,
                               !.exc = exc]
         IN IF exc # "none" THEN r1 ELSE BulkLoop(r1, Tail(outs), FALSE)

\* the caller calls TNS.get_object, at once or a tick after its last call
TnsGetObject ==
    /\ tns.n < MaxLookups
    /\ \E resp \in TnsResponses, pause \in {0, 1} :
          tns' = Looked(tns.clock + pause, resp.post = "ok",
                        get_object("tns", resp), "none")
    /\ UNCHANGED <<purevars, monvars, aggvars>>

\* the caller calls TarxivTNS.get_entry, at once or a tick after its last call
TnsGetEntry ==
    /\ tns.n < MaxLookups
    /\ \E reply \in TnsReplies, pause \in {0, 1} :
          tns' = Looked(tns.clock + pause, reply = "ok", NotReturned,
                        get_entry(reply))
    /\ UNCHANGED <<purevars, monvars, aggvars>>

\* the caller calls TNS.download_bulk_tns (data_sources.py:452-472), at once
\* or a tick after its last call
TNS_download_bulk_tns ==
    /\ tns.n < MaxLookups
    /\ \E a \in BulkAnswers, pause \in {0, 1} :
          tns' = Downloaded(tns.clock + pause, bulk_post(a))
    /\ UNCHANGED <<purevars, monvars, aggvars>>

\* the caller calls TarxivTNS.download_bulk_tns (tns_alerts.py:90-113): the
\* request for the CSV, then get_entry and upsert for each of its names
TarxivTNS_download_bulk_tns ==
    /\ tns.n < MaxLookups
    /\ \E a \in BulkAnswers, pause \in {0, 1},
          outs \in BoundedSeq(BulkOutcomes, MaxBulkNames) :
          LET p == Downloaded(tns.clock + pause, bulk_post(a))
          IN tns' = IF p.exc # "none" THEN p
                    ELSE BulkLoop(p, outs, tns.n = 0)
    /\ UNCHANGED <<purevars, monvars, aggvars>>

NextTns ==
    \/ TnsGetObject
    \/ TnsGetEntry
    \/ TNS_download_bulk_tns
    \/ TarxivTNS_download_bulk_tns

SpecTns == InitTns /\ [][NextTns]_vars

(* -------- specification: TarxivTNS.monitor_notices, lookups failing ---- *)
NextIngest ==
    \/ IngestStart
    \/ Ingest
    \/ IngestUpsertRaises
    \/ Arrive
    \/ Crash

SpecIngest == Init /\ [][NextIngest]_vars

(* ============================== claims =============================== *)

\* the messages whose unread flag this step clears
MarkedRead == unread \ unread'

\* message m is the notifier's
FromNotifier(m) == ~parse_message(mail[m]).none

\* the candidates of message m have been handed on (an entry put on the
\* queue, or their upserts begun) since the process started
Enqueued(m) == \E e \in handed : e.message = m

\* C1 as stated: the unread flag of a message is cleared only after an entry
\* for that message has been put on the queue.
C1_MarkReadOnlyAfterEnqueue ==
    [][\A m \in MarkedRead : Enqueued(m)]_vars

\* C1, amended: the unread flag of a message of the notifier is cleared only
\* after an entry for it has been put on the queue; a message that is not the
\* notifier's is marked read by the monitor itself (the monitoring thread,
\* or TarxivTNS.process_message) and is never put on the queue.
C1_NotifierMarkReadOnlyAfterEnqueue ==
    [][\A m \in MarkedRead :
          IF FromNotifier(m)
          THEN Enqueued(m)
          ELSE /\ ~Enqueued(m)
               /\ \/ \E th \in Threads :
                        pc[th] = "mark" /\ Head(batch[th]) = m
                  \/ ingest.pc = "modify" /\ Head(ingest.batch) = m]_vars

\* a notifier message enqueued and then marked read, and another message
\* marked read without an entry
C1_Witness ==
    /\ \E m \in 1..Len(mail) :
          FromNotifier(m) /\ m \notin unread /\ Enqueued(m)
    /\ \E m \in 1..Len(mail) :
          ~FromNotifier(m) /\ m \notin unread /\ ~Enqueued(m)

\* every entry the monitor can put on the queue
Entries ==
    {[message |-> m, alerts |-> parse_message(msg).alerts] :
        m \in 1..MaxMsgs, msg \in {x \in Messages : ~parse_message(x).none}}

\* C2: a notifier message stays unread until its cycle is over: until the
\* consumer's mark_read of its polled entry has returned or, in
\* TarxivTNS.process_message, until every candidate has been upserted.  An
\* entry that a crash cut off before that is still unread in the mailbox,
\* and after the restart the monitor hands on the same entry (same message,
\* same candidates) again.
C2_AtLeastOnceDelivery ==
    /\ [][\A m \in MarkedRead :
             FromNotifier(m) =>
                \/ c_pc = "marking" /\ c_msg.message = m /\ c_pc' = "idle"
                \/ /\ ingest.pc = "modify" /\ Head(ingest.batch) = m
                   /\ ingest.objs = <<>> /\ Enqueued(m)]_vars
    /\ [](\A e \in lost : e.message \in unread \/ e \in handed)
    /\ \A e \in Entries : (e \in lost) ~> (e \in handed)

\* an entry cut off by a crash has been handed on again after the restart
C2_Witness == \E e \in lost : e \in handed /\ crashes > 0

\* C3: within one run, the queue never receives a second entry for a message
\* that already had an entry put on it.
C3_NoSecondEntry ==
    [][Len(q') > Len(q) => ~Enqueued(q'[Len(q')].message)]_vars

\* C4: no list or message-fetch call is in progress while creds.refresh and
\* the rebuild of the service object are in progress.
C4_RefreshExcludesFetch ==
    \A t1, t2 \in Threads :
        ~(pc[t1] = "refresh" /\ pc[t2] \in {"list", "fetch"})


\* what the try body of the call did
Body == TryBody(adapter, answer)

Returned == get_ret # NotReturned

\* C5: failures never cross the adapter boundary: whatever fails inside
\* get_object (a request, a status, a key, a body, an except handler of its
\* own), the call returns its (meta, lc_df) pair and raises nothing.
C5_GetObjectNeverRaises ==
    Returned => get_ret.raised = "none"

\* C5 witness: an except handler of get_object raised (the append on
\* status["status"]) and the call returned all the same.
C5_Witness ==
    /\ Returned
    /\ Body.exc = "SurveyLightCurveMissing"
    /\ Except(adapter, Body) = "AttributeError"
    /\ get_ret.raised = "none"

\* C6 as claimed: when the network request fails with a network or timeout
\* condition, get_object raises a TransientFailure to its caller.
C6_NetworkFailureRaises ==
    (Returned /\ Body.exc \in NetworkErrors) =>
        get_ret.raised = "TransientFailure"

\* C6 as amended: when the network request fails with a network or timeout
\* condition, get_object raises nothing and returns (None, empty light
\* curve), the result of a no-match.
C6_NetworkFailureReturnsNoMatch ==
    (Returned /\ Body.exc \in NetworkErrors) =>
        /\ get_ret.raised = "none"
        /\ get_ret.meta_none
        /\ get_ret.lc_df = EmptyDataFrame

\* C6 witness: the second request of ZTF.get_object timed out after a
\* successful cone search, and the call returned.
C6_Witness ==
    /\ Returned
    /\ adapter = "ztf"
    /\ answer.cone = "match"
    /\ answer.obj = "Timeout"
    /\ get_ret.raised = "none"

\* the confirmed no-match answers
NoMatch ==
    \/ adapter = "ztf" /\ answer.cone \in {"non200", "nomatch"}
    \/ adapter = "ztf" /\ answer.cone = "match" /\ answer.obj = "ok"
          /\ answer.body.rows = <<>>
    \/ adapter = "tns" /\ answer.post = "nodata"
    \/ adapter = "asas-sn" /\ answer.query = "null"

\* C7: on a confirmed no-match (ZTF: cone search not 200, cone search without
\* a match, object query answering 200 with []; TNS: no "data" key; ASAS-SN:
\* a null query result) the adapter returns (None, empty light curve) and
\* does not raise.
C7_NoMatchReturnsNoneEmpty ==
    (Returned /\ NoMatch) =>
        /\ get_ret.raised = "none"
        /\ get_ret.meta_none
        /\ get_ret.lc_df = EmptyDataFrame

\* C7 witness: the ZTF object query answered 200 with [] after a successful
\* cone search, and the call returned None.
C7_Witness ==
    /\ Returned
    /\ adapter = "ztf"
    /\ answer.cone = "match"
    /\ answer.obj = "ok"
    /\ answer.body.rows = <<>>
    /\ get_ret.meta_none

\* the peak entries of the record meta_add_peak_mags returned
PeakEntries ==
    IF "peak_mag" \in DOMAIN peak_ret.dict THEN peak_ret.dict["peak_mag"]
    ELSE <<>>

\* the filters present in the light curve (a row whose filter is missing has
\* none)
FiltersPresent == {lc_in[i].filter : i \in 1..Len(lc_in)} \ {NaN}

MagsOf(f) == {lc_in[i].mag : i \in {j \in 1..Len(lc_in) : lc_in[j].filter = f}}

\* C8: for a non-empty merged light curve meta_add_peak_mags produces exactly
\* one peak entry per distinct filter present in the light curve, and the
\* entry's value is the minimum mag among that filter's rows.
C8_OnePeakPerFilterWithMinMag ==
    (peak_ret # Pending /\ Len(lc_in) > 0) =>
        /\ peak_ret.type = "dict"
        /\ \A f \in FiltersPresent :
              Cardinality({n \in 1..Len(PeakEntries) :
                              PeakEntries[n].filter = f}) = 1
        /\ \A n \in 1..Len(PeakEntries) :
              /\ PeakEntries[n].filter \in FiltersPresent
              /\ PeakEntries[n].value = MinOf(MagsOf(PeakEntries[n].filter))

\* C8 witness: two filters with different minima, one of them with two rows
\* would not fit MaxRows = 2, so: two rows of two filters and two peak entries
\* holding different values.
C8_Witness ==
    /\ peak_ret # Pending
    /\ Len(lc_in) = 2
    /\ Len(PeakEntries) = 2
    /\ PeakEntries[1].value # PeakEntries[2].value

\* the survey priority of the tie-break: TNS > ATLAS > ZTF > ASAS-SN (TNS
\* returns no rows)
SurveyPriority ==
    [s \in LcSurveys |->
        CASE s = "ATLAS" -> 1 [] s = "ZTF" -> 2 [] s = "ASAS-SN" -> 3]

\* row i is the peak measurement of its filter: the smallest mag, then the
\* earliest mjd, then the survey priority
IsPeakRow(lc, i) ==
    \A j \in 1..Len(lc) :
        lc[j].filter = lc[i].filter =>
            \/ lc[i].mag < lc[j].mag
            \/ /\ lc[i].mag = lc[j].mag
               /\ \/ lc[i].mjd < lc[j].mjd
                  \/ /\ lc[i].mjd = lc[j].mjd
                     /\ SurveyPriority[lc[i].survey]
                            <= SurveyPriority[lc[j].survey]

\* C9: each peak entry describes one actual measurement: its mjd_recorded and
\* source are the mjd and survey id of the row of that filter with the minimum
\* mag (earliest mjd, then survey priority, on a tie).
C9_PeakIsAMeasurement ==
    (peak_ret # Pending /\ Len(lc_in) > 0) =>
        \A n \in 1..Len(PeakEntries) :
            \E i \in 1..Len(lc_in) :
                /\ lc_in[i].filter = PeakEntries[n].filter
                /\ IsPeakRow(lc_in, i)
                /\ PeakEntries[n].value = lc_in[i].mag
                /\ PeakEntries[n].mjd_recorded = lc_in[i].mjd
                /\ PeakEntries[n].source = survey_source_map[lc_in[i].survey]

\* C10: clean_meta of a record whose fields are all lists removes exactly the
\* fields holding the empty list, replaces a one-element list by its element
\* and keeps a list of two or more elements unchanged.
C10_CleanKeepsNonEmptyFields ==
    clean_ret # NotCleaned =>
        \A k \in DOMAIN clean_in :
            /\ clean_in[k] = <<>> => k \notin DOMAIN clean_ret
            /\ Len(clean_in[k]) = 1 =>
                  /\ k \in DOMAIN clean_ret
                  /\ clean_ret[k] = Scalar(clean_in[k][1])
            /\ Len(clean_in[k]) >= 2 =>
                  /\ k \in DOMAIN clean_ret
                  /\ clean_ret[k] = List(clean_in[k])


(* ----------------------------- aggregation ---------------------------- *)
\* the adapter merged last, and what it had returned
LastMerged == agg_in[AdapterOrder[agg.next - 1]]

\* update_object_meta has returned and nothing else has touched the record
JustMerged == agg.next > 1 /\ agg.pc \in {"merge", "peak", "raised"}

\* only TNS answered: the surveys returned (None, empty)
OnlyTns ==
    /\ agg.pc # "idle"
    /\ ~agg_in["tns"].meta_none
    /\ \A m \in Range(AdapterOrder) \ {"tns"} :
          agg_in[m].meta_none /\ agg_in[m].lc_df.rows = <<>>

\* C11: when TNS returns metadata and every other adapter returns (None,
\* empty), the finalized record holds sources, made of exactly the TNS source,
\* and no peak_mag, and the merged light curve is empty.
C11_OnlyTnsRecord ==
    (OnlyTns /\ agg.out # <<>>) =>
        /\ agg.lc = <<>>
        /\ "sources" \in DOMAIN agg.out[1]
        /\ Range(agg.out[1]["sources"].items) = {schema_sources["TNS"]}
        /\ "peak_mag" \notin DOMAIN agg.out[1]

Added(survey_none, survey_meta, f) ==
    IF survey_none \/ f \notin DOMAIN survey_meta THEN <<>>
    ELSE survey_meta[f].items

\* C13: update_object_meta only appends: it keeps the keys of obj_meta, every
\* field's previous list is a prefix of the new one, sources aside the new
\* list is the previous one followed by the survey field's items in order, and
\* a scalar survey field adds one item.
C13_MergeAppendOnly ==
    JustMerged =>
        /\ DOMAIN agg.meta.dict = DOMAIN agg.prev
        /\ \A f \in DOMAIN agg.prev :
              /\ Len(agg.prev[f]) <= Len(agg.meta.dict[f])
              /\ SubSeq(agg.meta.dict[f], 1, Len(agg.prev[f])) = agg.prev[f]
        /\ \A f \in DOMAIN agg.prev \ {"sources"} :
              /\ agg.meta.dict[f] =
                    agg.prev[f] \o
                        Added(LastMerged.meta_none, LastMerged.meta, f)
              /\ (/\ ~LastMerged.meta_none
                  /\ f \in DOMAIN LastMerged.meta
                  /\ LastMerged.meta[f].shape = "scalar") =>
                     Len(agg.meta.dict[f]) = Len(agg.prev[f]) + 1

\* a scalar and a list were appended to fields that already held an entry
C13_Witness ==
    /\ JustMerged
    /\ ~LastMerged.meta_none
    /\ \E f \in DOMAIN LastMerged.meta :
          LastMerged.meta[f].shape = "scalar" /\ agg.prev[f] # <<>>
    /\ \E f \in DOMAIN LastMerged.meta :
          /\ LastMerged.meta[f].shape = "list"
          /\ LastMerged.meta[f].items # <<>>
          /\ agg.prev[f] # <<>>

\* the sources of the adapters merged so far whose metadata was not None
RECURSIVE Registered(_)
Registered(n) ==
    IF n = 0 THEN <<>>
    ELSE Registered(n - 1) \o
         (IF agg_in[AdapterOrder[n]].meta_none THEN <<>>
          ELSE [k \in 1..Len(associated_sources[AdapterOrder[n]]) |->
                   schema_sources[associated_sources[AdapterOrder[n]][k]]])

\* C14: update_object_meta(obj_meta, None) leaves obj_meta as it was, and
\* sources holds the sources of the adapters whose metadata was not None and
\* no other.
C14_NoneContributesNothing ==
    JustMerged =>
        /\ LastMerged.meta_none => agg.meta.dict = agg.prev
        /\ agg.meta.dict["sources"] = Registered(agg.next - 1)

\* an adapter that returned None was merged after one that registered itself
C14_Witness ==
    /\ JustMerged
    /\ LastMerged.meta_none
    /\ agg.prev["sources"] # <<>>
    /\ agg.meta.dict = agg.prev

\* the source registry
SourceIds == {0, 1, 2, 3, 5, 6, 7, 8}

\* C15: in the merged record every identifier is {name, source}, every other
\* metadata entry {value, source}, and every source is in the registry.
C15_ProvenanceShape ==
    JustMerged =>
        \A f \in DOMAIN agg.meta.dict \ {"sources"} :
            \A n \in 1..Len(agg.meta.dict[f]) :
                /\ DOMAIN agg.meta.dict[f][n] =
                      (IF f = "identifiers" THEN {"name", "source"}
                       ELSE {"value", "source"})
                /\ agg.meta.dict[f][n].source \in SourceIds

(* -------------------------- the work queue again ----------------------- *)
\* C16: the work queue has a capacity, a positive maxsize its length never
\* exceeds, so that a put on a full queue waits; a queue without one would
\* have to stay short of every length explored.
C16_QueueBounded ==
    \/ 0 < QUEUE_MAXSIZE /\ Len(q) <= QUEUE_MAXSIZE
    \/ Len(q) < MaxQueue

(* ------------------------------ stopping ------------------------------ *)
\* the threads monitor_notices has started
Started == 1..self_t

\* C17: stop_monitoring returns only after the monitoring has ended: once it
\* has returned, every thread that was started has left its loop, so none
\* lists, parses or enqueues any more.
C17_StopJoinsTheThread ==
    caller = "stopped" => \A th \in Started : pc[th] \in {"exit", "dead"}

(* ------------------------- failing mailbox calls ----------------------- *)
\* C18: a mailbox call that raises does not end the monitoring: a thread
\* leaves its loop only once a stop has been requested.
C18_OnlyStopEndsTheThread ==
    \A th \in Started : pc[th] \in {"exit", "dead"} => stop_event

(* ---------------------------- failing lookups -------------------------- *)
\* C19: a lookup or an upsert that fails for one candidate does not halt the
\* ingestion: no exception leaves the loop of monitor_notices, so the
\* candidates and the messages that remain are still looked up and upserted.
C19_FailedLookupDoesNotHalt == ingest.pc # "raised"

(* ------------------------------ TNS lookups ---------------------------- *)
\* C20: the request of every TNS lookup (get_object, get_entry) comes at least
\* the rate-limit delay after the request the caller sent before it, whatever
\* became of either, and the light curve a TNS lookup returns has no row.
C20_LookupsKeepTheRateLimit ==
    /\ tns.followed => tns.lgap >= rate_limit
    /\ tns.ret.lc_df.rows = <<>>

\* a lookup that found nothing follows another call with no pause: its request
\* is exactly the delay after the one before
C20_Witness ==
    /\ tns.n >= 2
    /\ tns.followed
    /\ tns.lgap = rate_limit
    /\ tns.ret.raised = "none"
    /\ tns.ret.meta_none

(* --------------------- what the adapters hand back -------------------- *)
\* the rows of the returned light curve that hold column c
RowsWith(c) ==
    IF c \in get_ret.lc_df.columns THEN get_ret.lc_df.rows ELSE <<>>

\* the filters the ZTF adapter declares
ZTF_filters == {"g", "R", "i"}

\* C21: every row of a normalized light curve the ZTF adapter returns has its
\* filter in {g, R, i}, whatever raw code the row came with.
C21_ZtfFilterEnumerated ==
    (Returned /\ adapter = "ztf" /\ get_ret.lc_df.columns = NormalColumns) =>
        \A n \in 1..Len(get_ret.lc_df.rows) :
            get_ret.lc_df.rows[n]["filter"] \in ZTF_filters

\* C22: no adapter returns a non-detection: no row of a returned light curve
\* has mag_err >= 99, and no row ASAS-SN returns has the quality flag "B".
C22_NoNonDetections ==
    Returned =>
        /\ \A n \in 1..Len(RowsWith("mag_err")) :
              RowsWith("mag_err")[n]["mag_err"] < 99
        /\ adapter = "asas-sn" =>
              \A n \in 1..Len(RowsWith("quality")) :
                  RowsWith("quality")[n]["quality"] # "B"

\* C25: a light curve that is returned with rows has the columns mjd, mag,
\* mag_err, limit, filter, unit, survey and no other, on every return path.
C25_NormalColumnsOnly ==
    (Returned /\ get_ret.lc_df.rows # <<>>) =>
        get_ret.lc_df.columns = NormalColumns

(* ------------------------------- parsing ------------------------------ *)
\* the From header of message m holds the notifier's address
SenderIsNotifier(m) == \E i \in 1..Len(mail[m].from) : mail[m].from[i] = TNS_EMAIL

\* the message thread th is at, in its batch
AtMessage(th) == pc[th] \in {"fetch", "mark"} /\ batch[th] # <<>>

\* the places of the non-empty anchor texts of message m
NonEmptyAnchors(m) == {i \in 1..Len(mail[m].anchors) : mail[m].anchors[i] # ""}

\* C23 as claimed: for a message whose From header lacks the notifier's
\* address parse_message returns an empty candidate list.
C23_NonNotifierYieldsEmptyList ==
    \A th \in Started :
        (AtMessage(th) /\ ~SenderIsNotifier(Head(batch[th]))) =>
            /\ ~parse_message(mail[Head(batch[th])]).none
            /\ parse_message(mail[Head(batch[th])]).alerts = <<>>

\* what holds of the messages the monitoring threads are at and of the queue
C23_Parsed ==
    /\ \A th \in Started :
          AtMessage(th) =>
              LET m == Head(batch[th])
                  r == parse_message(mail[m])
              IN /\ SenderIsNotifier(m) =>
                       /\ ~r.none
                       /\ Len(r.alerts) = Cardinality(NonEmptyAnchors(m))
                       /\ Range(r.alerts) =
                             {mail[m].anchors[i] : i \in NonEmptyAnchors(m)}
                 /\ ~SenderIsNotifier(m) => r.none
                 /\ pc[th] = "mark" => ~SenderIsNotifier(m)
    /\ \A n \in 1..Len(q) : SenderIsNotifier(q[n].message)

\* a thread that is done with a message is at the next one of its batch, or
\* back at the top of its loop
C23_GoesOn ==
    \A th \in Threads :
        (AtMessage(th) /\ batch'[th] # batch[th] /\ pc'[th] # "unborn") =>
            /\ batch'[th] = Tail(batch[th])
            /\ pc'[th] = IF batch'[th] # <<>> THEN "fetch"
                         ELSE LoopTop(last_refresh[th])

\* C23 as amended: for a message whose From header lacks the notifier's
\* address parse_message returns None, no list, and raises nothing; the thread
\* marks the message read and puts nothing on the queue.  For a message of the
\* notifier it returns the non-empty anchor texts, which are put on the queue.
\* Either way the thread goes on to the next message of the batch.
C23_ParseNoneOrAnchors == []C23_Parsed /\ [][C23_GoesOn]_vars

\* a thread is marking a message of another sender read while the candidates
\* of a notifier's message are on the queue
C23_Witness ==
    \E th \in Started :
        /\ pc[th] = "mark"
        /\ ~SenderIsNotifier(Head(batch[th]))
        /\ q # <<>>

(* --------------------------- monitoring threads ------------------------ *)
\* the threads that have been started and have not left _monitoring_thread
Alive == {th \in Started : pc[th] \notin {"exit", "dead"}}

\* C24: at most one monitoring thread is alive at any time, whatever calls of
\* monitor_notices and stop_monitoring are made.
C24_SingleProducer == Cardinality(Alive) <= 1

(* ------------------- what meta_add_peak_mags hands back ---------------- *)
\* C26: meta_add_peak_mags returns the record it was given: unchanged and
\* without peak_mag for an empty light curve, and with no field other than
\* peak_mag changed or added for any other.
C26_ReturnsTheRecord ==
    peak_ret # Pending =>
        /\ peak_ret.type = "dict"
        /\ DOMAIN peak_ret.dict \subseteq DOMAIN meta_in \cup {"peak_mag"}
        /\ \A k \in DOMAIN meta_in :
              k \in DOMAIN peak_ret.dict /\ peak_ret.dict[k] = meta_in[k]
        /\ lc_in = <<>> => peak_ret.dict = meta_in

(* --------------------------- credential refresh ------------------------ *)
\* thread th, in the middle of a batch, issues its next mailbox call: the get
\* of parse_message or the modify of mark_read
NextCallInBatch(th) ==
    /\ pc[th] \in {"fetch", "mark"}
    /\ pc'[th] \in {"fetch", "mark"}
    /\ <<pc[th], batch[th]>> # <<pc'[th], batch'[th]>>

\* C27: the refresh is made whenever 30 minutes have passed since the last
\* one, also in the middle of a batch: no mailbox call is issued with a
\* credential whose refresh is due.
C27_RefreshOnItsOwnTimer ==
    [][\A th \in Threads :
          NextCallInBatch(th) => now' - last_refresh'[th] < REFRESH_SECONDS]_vars

(* ----------------------- rows only with metadata ----------------------- *)
\* C28: on every return path of every adapter, metadata None comes with an
\* empty light curve: rows are returned only beside the metadata of the object
\* they belong to.
C28_NoRowsWithoutMeta ==
    (Returned /\ get_ret.meta_none) => get_ret.lc_df.rows = <<>>

\* rows were returned after the normalization had failed part-way, beside
\* the metadata read before it
C28_Witness ==
    /\ Returned
    /\ Body.exc = "KeyError"
    /\ get_ret.lc_df.rows # <<>>
    /\ ~get_ret.meta_none

(* ---------------------- the consumer and the refresh ------------------- *)
\* C29: the consumer is never inside mark_read, which sends its request
\* through the shared credentials, while a monitoring thread is inside
\* creds.refresh.
C29_MarkReadExcludesRefresh ==
    ~(c_pc = "marking" /\ \E th \in Started : pc[th] = "refresh")

(* ------------------------------- liveness ------------------------------ *)
\* message m is in the inbox, unread, and a monitoring thread runs
Waiting(m) == m <= Len(mail) /\ m \in unread /\ self_t # 0

\* poll has returned the entry of message m, with the candidates of m
Polled(m) ==
    /\ c_pc # "idle"
    /\ c_msg.message = m
    /\ Len(c_msg.alerts) = Cardinality(NonEmptyAnchors(m))

\* C30: while the monitoring thread runs, an unread message of the notifier is
\* eventually put on the queue and returned by poll with its candidates, and
\* an unread message of another sender is eventually marked read (unless the
\* process dies first).
C30_MonitorLiveness ==
    \A m \in 1..MaxMsgs :
        /\ (Waiting(m) /\ SenderIsNotifier(m)) ~> (Polled(m) \/ self_t = 0)
        /\ (Waiting(m) /\ ~SenderIsNotifier(m)) ~>
              (m \notin unread \/ self_t = 0)

\* poll has returned the entry of a notifier's message and a message of
\* another sender has been marked read, the thread still running
C30_Witness ==
    /\ self_t # 0
    /\ c_pc = "got"
    /\ SenderIsNotifier(c_msg.message)
    /\ Polled(c_msg.message)
    /\ \E m \in 1..Len(mail) : ~SenderIsNotifier(m) /\ m \notin unread
====
